---- MODULE Spec2Model ----
(***************************************************************************)
(* The per-list lock registry (ListManager) of gomlmmj and the wrapper     *)
(* (MLMMJWrapper) that takes a list's guard around every handler call.     *)
(*                                                                         *)
(* A sync.RWMutex is a record [w, readers]: w says that a writer owns the  *)
(* mutex's inner writer lock (it waits for the readers to leave, or it     *)
(* holds the mutex), and readers counts the read locks granted.  As in     *)
(* package sync, RLock waits while w is set, Lock waits for w and then for *)
(* the granted readers to leave, and Unlock grants the read lock to every  *)
(* reader that waits.  Who waits where is the position (pc) of the         *)
(* goroutine.                                                              *)
(*                                                                         *)
(* A goroutine takes one step from one point where it can be made to wait  *)
(* (a Lock or RLock that is not granted, a call of the handler, a channel  *)
(* receive, a caller that looks at a result) to the next.  The statements  *)
(* between two such points touch shared state only under lm.mutex, or are  *)
(* an acquisition at their start and releases at their end, so every       *)
(* interleaving of them has the effect of one where they run together.     *)
(*                                                                         *)
(* The initial state is the manager after NewListManager and one Init, as  *)
(* NewMLMMJWrapper builds it.  (After NewListManager alone the map is nil  *)
(* and only Init makes it usable.)                                         *)
(***************************************************************************)
EXTENDS Integers, Sequences, FiniteSets, Bags, TLC

\* ------------------------------------------------------------- bounds
\* Per-list sync.RWMutex instances alive at one time.  An instance that
\* nothing refers to any more (no map entry, no release function, no local
\* m) is garbage, and its index is used again for a later new(sync.RWMutex).
MaxLocks == 2
\* Release functions not yet called plus ReadList/WriteList calls in flight,
\* for the clients that call the ListManager directly.
MaxGuards == 3

\* ------------------------------------------------------------- inputs
Tasks == {"t1", "t2", "t3"}
\* Thread 0 of a task is the calling goroutine, thread i > 0 the goroutine
\* that Init starts for the i-th element of spoolList.  Init is run by the
\* first task only, so only that one has such goroutines.
Threads == {0, 1, 2}
InitTask == "t1"
Procs == {p \in Tasks \X Threads : p[2] = 0 \/ p[1] = InitTask}
Main(t) == <<t, 0>>

\* A path is the sequence of its segments.
NoPath == <<>>

\* path.Clean on segments: "." is dropped, ".." removes the segment before it.
RECURSIVE CleanAcc(_, _)
CleanAcc(p, acc) ==
    IF p = <<>> THEN acc
    ELSE IF Head(p) = "." \/ Head(p) = "" THEN CleanAcc(Tail(p), acc)
    ELSE IF Head(p) = ".."
         THEN CleanAcc(Tail(p), IF acc = <<>> THEN acc ELSE SubSeq(acc, 1, Len(acc) - 1))
    ELSE CleanAcc(Tail(p), Append(acc, Head(p)))

\* path.Join(spool, name)
listDir(spool, name) == CleanAcc(spool \o name, <<>>)

\* The spool and the list names that the callers of the wrapper use.
TheSpool == <<"s1">>
ListNames == {<<"alpha">>, <<"beta">>}
\* The paths that clients of the ListManager pass to it.
ClientPaths == {listDir(TheSpool, n) : n \in ListNames}
\* The spoolList arguments of Init.
SpoolLists == {<<(<<"s1">>)>>, <<(<<"s1">>), (<<"s2">>)>>}
\* What ioutil.ReadDir can list in a spool (sorted by name).
Listings(spool) ==
    IF spool = <<"s1">> THEN {<<>>, <<(<<"alpha">>)>>, <<(<<"alpha">>), (<<"beta">>)>>}
    ELSE {<<>>, <<(<<"alpha">>)>>}
\* What the spool held when the manager was constructed.
StartupListings == {<<>>, <<(<<"alpha">>)>>}

\* UserType
Subscriber == 0
Digest == 1
Nomail == 2
Moderator == 3
Owner == 4
\* "from all versions"
AllVersions == -1
\* a UserType that no constant names, for the calls that have no mode
NoMode == Owner + 1

\* error values
Nil == "nil"
UnwatchedList == "UnwatchedList"
InvalidMode == "Invalid subscription type"
UnknownMode == "Unkown subscription type"
ExecError == "handler error"
Canceled == "context canceled"

VARIABLES
    lists,    \* lm.lists: path -> index of its *sync.RWMutex
    mutex,    \* lm.mutex
    locks,    \* the heap of per-list sync.RWMutex, by index
    pc,       \* position of each goroutine
    call,     \* the call each goroutine executes
    m,        \* the *sync.RWMutex the goroutine's call looked up (0: none)
    res,      \* value the call returns (an error, or "true"/"false")
    guards,   \* bag of the release functions returned and not yet called
              \* (those of a call that found the list; the others do nothing)
    ch,       \* the error channel of Init / of a fan-out operation
    err,      \* the local err of Init / of a fan-out operation
    recvd,    \* the loop counter i of Init / of a fan-out operation
    sub,      \* the sub-queries of a fan-out operation, by category
    stat      \* per wrapper call: guard acquisitions, release calls, handler calls

vars == <<lists, mutex, locks, pc, call, m, res, guards, ch, err, recvd, sub, stat>>

LockIds == 1..MaxLocks
RWFree == [w |-> FALSE, readers |-> 0]
NoCall == [op |-> "none", path |-> NoPath, spool |-> NoPath, name |-> NoPath,
           mode |-> NoMode, todo |-> <<>>, spools |-> <<>>, obs |-> FALSE,
           found |-> <<>>, wrapper |-> FALSE]
NoStat == [acq |-> 0, rel |-> 0, calls |-> 0]
Categories == {Subscriber, Digest, Nomail, Moderator, Owner}
NoSub == [c \in Categories |-> "none"]

Guard(path, lock, mode) == [path |-> path, lock |-> lock, mode |-> mode]
NGuards == BagCardinality(guards)
InFlight == Cardinality({p \in Procs : pc[p] \in
              {"rl_rwait", "rl_lookup", "rl_mwait", "rl_ret",
               "wl_rwait", "wl_lookup", "wl_mlock", "wl_mdrain"}})

\* A registry as Init builds it from one listing of the spool.
RegistryOf(listing) ==
    [p \in {listDir(TheSpool, listing[i]) : i \in 1..Len(listing)} |->
        CHOOSE i \in 1..Len(listing) : listDir(TheSpool, listing[i]) = p]

Init ==
    /\ \E l \in StartupListings : lists = RegistryOf(l)
    /\ mutex = RWFree
    /\ locks = [i \in LockIds |-> RWFree]
    /\ pc = [p \in Procs |-> IF p[2] = 0 THEN "idle" ELSE "off"]
    /\ call = [p \in Procs |-> NoCall]
    /\ m = [p \in Procs |-> 0]
    /\ res = [p \in Procs |-> Nil]
    /\ guards = EmptyBag
    /\ ch = [t \in Tasks |-> <<>>]
    /\ err = [t \in Tasks |-> Nil]
    /\ recvd = [t \in Tasks |-> 0]
    /\ sub = [t \in Tasks |-> NoSub]
    /\ stat = [t \in Tasks |-> NoStat]

\* --------------------------------------------------- sync.RWMutex
\* Unlock of lm.mutex grants the read lock to the readers that wait for it.
WakeTop(f) ==
    [q \in Procs |-> IF f[q] = "rl_rwait" THEN "rl_lookup"
                     ELSE IF f[q] = "wl_rwait" THEN "wl_lookup"
                     ELSE f[q]]
TopWaiters == {q \in Procs : pc[q] \in {"rl_rwait", "wl_rwait"}}
TopUnlocked == [w |-> FALSE, readers |-> Cardinality(TopWaiters)]

\* Unlock of the per-list mutex l grants the read lock to its waiting readers.
WakeList(f, l) ==
    [q \in Procs |-> IF f[q] = "rl_mwait" /\ m[q] = l THEN "rl_ret" ELSE f[q]]
ListWaiters(l) == {q \in Procs : pc[q] = "rl_mwait" /\ m[q] = l}

\* The release functions that ReadList/WriteList hand out: m.RUnlock(),
\* m.Unlock(), and func() {}.
RUnlockFn == "RUnlock"
UnlockFn == "Unlock"
NoopFn == "noop"

\* The sync.RWMutex instances something still refers to.
UsedLocks ==
    {lists[q] : q \in DOMAIN lists} \cup {g.lock : g \in BagToSet(guards)}
        \cup {m[q] : q \in {r \in Procs : m[r] # 0}}
\* An allocation that hands out the first mutex again, in use or not.
FirstRWMutex == CHOOSE i \in LockIds : \A j \in LockIds : i <= j

\* new(sync.RWMutex): an unlocked mutex at an index nothing refers to.
NewRWMutex ==
    LET free == LockIds \ UsedLocks
    IN IF free = {} THEN 0 ELSE CHOOSE i \in free : \A j \in free : i <= j
\* AddList calls under way or to come, each of which may allocate one RWMutex.
\* (The wrapper removes no list, so it never has more mutexes than names.)
RECURSIVE SumTodo(_)
SumTodo(S) ==
    IF S = {} THEN 0
    ELSE LET q == CHOOSE r \in S : TRUE IN Len(call[q].todo) + SumTodo(S \ {q})
PendingAdds ==
    Cardinality({q \in Procs : pc[q] \in {"add_lock", "add_body"}
                                /\ call[q].op # "discover"})
        + SumTodo({q \in Procs : call[q].op = "discover"})
CanAllocate(n) == Cardinality(UsedLocks) + PendingAdds + n <= MaxLocks

\* The goroutine p goes on at position at, in call c, with m = l and result r;
\* f is pc, or pc after the wake-up of waiting readers.
Goes(f, p, at, c, l, r) ==
    /\ pc' = [f EXCEPT ![p] = at]
    /\ call' = [call EXCEPT ![p] = c]
    /\ m' = [m EXCEPT ![p] = l]
    /\ res' = [res EXCEPT ![p] = r]

\* A call returns r to its caller: a caller that looks at the result does
\* so before its next call, the others go on at once.
Returns(f, p, c, r) ==
    IF c.obs THEN Goes(f, p, "done", c, 0, r) ELSE Goes(f, p, "idle", NoCall, 0, Nil)

\* ------------------------------------------------------------ AddList
\* An AddList that installs a new RWMutex whether or not path is present.
AddListMapReplace(ls, path, n) ==
    [q \in DOMAIN ls \cup {path} |-> IF q = path THEN n ELSE ls[q]]

\* lm.lists after the body of AddList: a new RWMutex n if path is absent.
AddListMap(ls, path, n) ==
    IF path \in DOMAIN ls THEN ls ELSE ls @@ (path :> n)

\* An AddList that reports an insertion in every case.
AddListResultTrue(ls, path) == "true"

\* What AddList returns.
AddListResult(ls, path) == IF path \in DOMAIN ls THEN "false" ELSE "true"

\* The body of AddList under the write lock, the deferred lm.mutex.Unlock()
\* and the return.  In a goroutine of Init the loop over the discovered
\* lists goes on with the next list, and after the last one the goroutine
\* sends its error (ch <- err, which never waits: ch has room for all).
\* MakeML drops AddList's result and returns the handler's nil error.
AddList_Body(p, c) ==
    /\ lists' = AddListMap(lists, c.path, NewRWMutex)
    /\ mutex' = TopUnlocked
    /\ IF c.op = "discover"
       THEN LET rest == Tail(c.todo) IN
            IF rest = <<>>
            THEN /\ Goes(WakeTop(pc), p, "off",
                         [c EXCEPT !.todo = rest, !.path = NoPath], 0, res[p])
                 /\ ch' = [ch EXCEPT ![p[1]] = Append(@, res[p])]
            ELSE /\ Goes(WakeTop(pc), p, "disc_add",
                         [c EXCEPT !.todo = rest, !.path = NoPath], 0, res[p])
                 /\ UNCHANGED ch
       ELSE /\ Returns(WakeTop(pc), p, c,
                       IF c.op = "MakeML" THEN Nil ELSE AddListResult(lists, c.path))
            /\ UNCHANGED ch
    /\ UNCHANGED <<locks, guards, err, recvd, sub, stat>>

\* lm.mutex.Lock() once the writer lock is free: new readers wait from now
\* on, and the body runs when the granted readers have left.
AddList_Lock(p, c) ==
    IF mutex.readers = 0
    THEN AddList_Body(p, c)
    ELSE /\ mutex' = [mutex EXCEPT !.w = TRUE]
         /\ Goes(pc, p, "add_body", c, 0, res[p])
         /\ UNCHANGED <<lists, locks, guards, ch, err, recvd, sub, stat>>

\* AddList(fullPath) from its first statement.
AddList(p, c) ==
    IF mutex.w
    THEN /\ Goes(pc, p, "add_lock", c, 0, res[p])
         /\ UNCHANGED <<lists, mutex, locks, guards, ch, err, recvd, sub, stat>>
    ELSE AddList_Lock(p, c)

Call_AddList(t, path, obs) ==
    /\ pc[Main(t)] = "idle"
    /\ CanAllocate(1)
    /\ AddList(Main(t), [NoCall EXCEPT !.op = "AddList", !.path = path, !.obs = obs])

\* A waiting AddList gets the writer lock of lm.mutex.
AddList_Locked(p) ==
    /\ pc[p] = "add_lock"
    /\ ~mutex.w
    /\ AddList_Lock(p, call[p])

\* The readers of lm.mutex have left: Lock returns to AddList.
AddList_Drained(p) ==
    /\ pc[p] = "add_body"
    /\ mutex.readers = 0
    /\ AddList_Body(p, call[p])

\* --------------------------------------------------------- RemoveList
\* A RemoveList that empties the map.
RemoveListMapAll(ls, path) == IF path \in DOMAIN ls THEN <<>> ELSE ls

\* delete(lm.lists, fullPath)
RemoveListMap(ls, path) == [q \in DOMAIN ls \ {path} |-> ls[q]]

RemoveListResult(ls, path) == IF path \in DOMAIN ls THEN "true" ELSE "false"

\* A RemoveList that also resets the mutex of the entry it deletes.
RemoveList_Body_Reset(p, c) ==
    /\ lists' = RemoveListMap(lists, c.path)
    /\ mutex' = TopUnlocked
    /\ locks' = IF c.path \in DOMAIN lists
                THEN [locks EXCEPT ![lists[c.path]] = RWFree] ELSE locks
    /\ Returns(WakeTop(pc), p, c, RemoveListResult(lists, c.path))
    /\ UNCHANGED <<guards, ch, err, recvd, sub, stat>>

\* The body of RemoveList under the write lock, the deferred
\* lm.mutex.Unlock() and the return.
RemoveList_Body(p, c) ==
    /\ lists' = RemoveListMap(lists, c.path)
    /\ mutex' = TopUnlocked
    /\ Returns(WakeTop(pc), p, c, RemoveListResult(lists, c.path))
    /\ UNCHANGED <<locks, guards, ch, err, recvd, sub, stat>>

RemoveList_Lock(p, c) ==
    IF mutex.readers = 0
    THEN RemoveList_Body(p, c)
    ELSE /\ mutex' = [mutex EXCEPT !.w = TRUE]
         /\ Goes(pc, p, "rem_body", c, 0, res[p])
         /\ UNCHANGED <<lists, locks, guards, ch, err, recvd, sub, stat>>

RemoveList(p, c) ==
    IF mutex.w
    THEN /\ Goes(pc, p, "rem_lock", c, 0, res[p])
         /\ UNCHANGED <<lists, mutex, locks, guards, ch, err, recvd, sub, stat>>
    ELSE RemoveList_Lock(p, c)

Call_RemoveList(t, path, obs) ==
    /\ pc[Main(t)] = "idle"
    /\ RemoveList(Main(t), [NoCall EXCEPT !.op = "RemoveList", !.path = path, !.obs = obs])

RemoveList_Locked(p) ==
    /\ pc[p] = "rem_lock"
    /\ ~mutex.w
    /\ RemoveList_Lock(p, call[p])

RemoveList_Drained(p) ==
    /\ pc[p] = "rem_body"
    /\ mutex.readers = 0
    /\ RemoveList_Body(p, call[p])

\* ------------------------------------------- ReadList and WriteList
IsDirect(c) == c.op \in {"ReadList", "WriteList"}
\* The operations of the wrapper that start one goroutine per category.
FanOut(op) ==
    IF op = "ListAllMembers" THEN {Subscriber, Digest, Nomail}
    ELSE IF op = "ListAllControllers" THEN {Owner, Moderator}
    ELSE {}

\* A wrapper that does not look at hasList: without the list it calls the
\* handler all the same and returns what the handler returns.
Wrapper_AcquiredUnchecked(p, c, l, fn) ==
    IF l = 0
    THEN /\ Goes(pc, p, "done", c, 0, Nil)
         /\ stat' = [stat EXCEPT ![p[1]].acq = @ + 1, ![p[1]].rel = @ + 1,
                                 ![p[1]].calls = @ + 1]
         /\ UNCHANGED <<guards, sub>>
    ELSE /\ guards' = guards (+) SetToBag({Guard(c.path, l, fn)})
         /\ Goes(pc, p, "handler", c, l, Nil)
         /\ stat' = [stat EXCEPT ![p[1]].acq = @ + 1, ![p[1]].calls = @ + 1]
         /\ UNCHANGED sub

\* The wrapper after hasList, lock := ReadList/WriteList(listDir(spool, name))
\* and defer lock(): without the list it returns UnwatchedList (the deferred
\* lock() does nothing); with it, it calls the handler, in the fan-out
\* operations from one goroutine per category.
Wrapper_Acquired(p, c, l, fn) ==
    IF l = 0
    THEN /\ Goes(pc, p, "done", c, 0, UnwatchedList)
         /\ stat' = [stat EXCEPT ![p[1]].acq = @ + 1, ![p[1]].rel = @ + 1]
         /\ UNCHANGED <<guards, sub>>
    ELSE /\ guards' = guards (+) SetToBag({Guard(c.path, l, fn)})
         /\ IF FanOut(c.op) # {}
            THEN /\ Goes(pc, p, "fan_recv", c, l, Nil)
                 /\ sub' = [sub EXCEPT ![p[1]] =
                              [k \in Categories |-> IF k \in FanOut(c.op) THEN "run" ELSE "none"]]
                 /\ stat' = [stat EXCEPT ![p[1]].acq = @ + 1,
                                         ![p[1]].calls = @ + Cardinality(FanOut(c.op))]
            ELSE /\ Goes(pc, p, "handler", c, l, Nil)
                 /\ stat' = [stat EXCEPT ![p[1]].acq = @ + 1, ![p[1]].calls = @ + 1]
                 /\ UNCHANGED sub

\* The deferred lm.mutex.RUnlock() and the return of (hasList, f), where mx
\* is lm.mutex read-locked by p, l the mutex found (0: none) and fn the
\* release function built for it.
Acquire_Return(p, c, mx, l, fn) ==
    /\ mutex' = [mx EXCEPT !.readers = @ - 1]
    /\ IF IsDirect(c)
       THEN /\ guards' = IF l # 0 THEN guards (+) SetToBag({Guard(c.path, l, fn)}) ELSE guards
            /\ Returns(pc, p, c, IF l # 0 THEN "true" ELSE "false")
            /\ UNCHANGED <<sub, stat>>
       ELSE Wrapper_Acquired(p, c, l, fn)
    /\ UNCHANGED <<lists, ch, err, recvd>>

\* A ReadList whose m.RLock() waits for the readers of m as well, as a
\* Lock() would.
ReadList_Lookup_Exclusive(p, c, mx) ==
    IF c.path \notin DOMAIN lists
    THEN Acquire_Return(p, c, mx, 0, NoopFn) /\ UNCHANGED locks
    ELSE LET l == lists[c.path] IN
         IF locks[l].w \/ locks[l].readers >= 1
         THEN /\ Goes(pc, p, "rl_mwait", c, l, res[p])
              /\ mutex' = mx
              /\ UNCHANGED <<lists, locks, guards, ch, err, recvd, sub, stat>>
         ELSE /\ locks' = [locks EXCEPT ![l].readers = @ + 1]
              /\ Acquire_Return(p, c, mx, l, RUnlockFn)

\* ReadList from m, hasList := lm.lists[fullPath] on: m.RLock() is granted
\* unless a writer owns or awaits m; p keeps lm.mutex read-locked meanwhile.
ReadList_Lookup(p, c, mx) ==
    IF c.path \notin DOMAIN lists
    THEN Acquire_Return(p, c, mx, 0, NoopFn) /\ UNCHANGED locks
    ELSE LET l == lists[c.path] IN
         IF locks[l].w
         THEN /\ Goes(pc, p, "rl_mwait", c, l, res[p])
              /\ mutex' = mx
              /\ UNCHANGED <<lists, locks, guards, ch, err, recvd, sub, stat>>
         ELSE /\ locks' = [locks EXCEPT ![l].readers = @ + 1]
              /\ Acquire_Return(p, c, mx, l, RUnlockFn)

\* ReadList(fullPath) from its first statement, lm.mutex.RLock().
ReadList(p, c) ==
    IF mutex.w
    THEN /\ Goes(pc, p, "rl_rwait", c, 0, res[p])
         /\ UNCHANGED <<lists, mutex, locks, guards, ch, err, recvd, sub, stat>>
    ELSE ReadList_Lookup(p, c, [mutex EXCEPT !.readers = @ + 1])

Call_ReadList(t, path, obs) ==
    /\ pc[Main(t)] = "idle"
    /\ NGuards + InFlight < MaxGuards
    /\ ReadList(Main(t), [NoCall EXCEPT !.op = "ReadList", !.path = path, !.obs = obs])

\* A ReadList that waited for lm.mutex has been granted the read lock.
ReadList_RLocked(p) ==
    /\ pc[p] = "rl_lookup"
    /\ ReadList_Lookup(p, call[p], mutex)

\* A ReadList that waited for m has been granted the read lock.
ReadList_MRLocked(p) ==
    /\ pc[p] = "rl_ret"
    /\ Acquire_Return(p, call[p], mutex, m[p], RUnlockFn)
    /\ UNCHANGED locks

\* m.Lock() has m's writer lock: it returns when m's readers have left.
WriteList_MLock(p, c, mx, l) ==
    IF locks[l].readers = 0
    THEN /\ locks' = [locks EXCEPT ![l].w = TRUE]
         /\ Acquire_Return(p, c, mx, l, UnlockFn)
    ELSE /\ locks' = [locks EXCEPT ![l].w = TRUE]
         /\ Goes(pc, p, "wl_mdrain", c, l, res[p])
         /\ mutex' = mx
         /\ UNCHANGED <<lists, guards, ch, err, recvd, sub, stat>>

\* WriteList from m, hasList := lm.lists[fullPath] on; p keeps lm.mutex
\* read-locked while m.Lock() waits.
WriteList_Lookup(p, c, mx) ==
    IF c.path \notin DOMAIN lists
    THEN Acquire_Return(p, c, mx, 0, NoopFn) /\ UNCHANGED locks
    ELSE LET l == lists[c.path] IN
         IF locks[l].w
         THEN /\ Goes(pc, p, "wl_mlock", c, l, res[p])
              /\ mutex' = mx
              /\ UNCHANGED <<lists, locks, guards, ch, err, recvd, sub, stat>>
         ELSE WriteList_MLock(p, c, mx, l)

\* WriteList(fullPath) from its first statement, lm.mutex.RLock().
WriteList(p, c) ==
    IF mutex.w
    THEN /\ Goes(pc, p, "wl_rwait", c, 0, res[p])
         /\ UNCHANGED <<lists, mutex, locks, guards, ch, err, recvd, sub, stat>>
    ELSE WriteList_Lookup(p, c, [mutex EXCEPT !.readers = @ + 1])

Call_WriteList(t, path, obs) ==
    /\ pc[Main(t)] = "idle"
    /\ NGuards + InFlight < MaxGuards
    /\ WriteList(Main(t), [NoCall EXCEPT !.op = "WriteList", !.path = path, !.obs = obs])

\* A WriteList that waited for lm.mutex has been granted the read lock.
WriteList_RLocked(p) ==
    /\ pc[p] = "wl_lookup"
    /\ WriteList_Lookup(p, call[p], mutex)

\* An m.Lock() that does not wait for the writer that owns m.
WriteList_MLocked_NoWait(p) ==
    /\ pc[p] = "wl_mlock"
    /\ WriteList_MLock(p, call[p], mutex, m[p])

\* A WriteList that waited for m's writer lock gets it.
WriteList_MLocked(p) ==
    /\ pc[p] = "wl_mlock"
    /\ ~locks[m[p]].w
    /\ WriteList_MLock(p, call[p], mutex, m[p])

\* An m.Lock() that does not wait for the readers of m to leave.
WriteList_MDrained_NoWait(p) ==
    /\ pc[p] = "wl_mdrain"
    /\ Acquire_Return(p, call[p], mutex, m[p], UnlockFn)
    /\ UNCHANGED locks

\* The readers of m have left: m.Lock() returns to WriteList.
WriteList_MDrained(p) ==
    /\ pc[p] = "wl_mdrain"
    /\ locks[m[p]].readers = 0
    /\ Acquire_Return(p, call[p], mutex, m[p], UnlockFn)
    /\ UNCHANGED locks

\* ------------------------------------------- the release functions f()
\* Release functions of which the one for an unknown list unlocks all the
\* per-list mutexes.
ReleaseLocks_NoopUnlocks(g) ==
    IF g.mode = RUnlockFn THEN [locks EXCEPT ![g.lock].readers = @ - 1]
    ELSE IF g.mode = UnlockFn
         THEN [locks EXCEPT ![g.lock] = [w |-> FALSE,
                                         readers |-> Cardinality(ListWaiters(g.lock))]]
    ELSE [i \in LockIds |-> RWFree]

\* The per-list mutexes after a call of release function g.
ReleaseLocks(g) ==
    IF g.mode = RUnlockFn THEN [locks EXCEPT ![g.lock].readers = @ - 1]
    ELSE IF g.mode = UnlockFn
         THEN [locks EXCEPT ![g.lock] = [w |-> FALSE,
                                         readers |-> Cardinality(ListWaiters(g.lock))]]
    ELSE locks
ReleasePc(g) == IF g.mode = UnlockFn THEN WakeList(pc, g.lock) ELSE pc

\* A release function that takes lm.mutex before it unlocks the list's mutex.
Release_UnderTopLock(g) ==
    /\ ~mutex.w /\ mutex.readers = 0
    /\ BagIn(g, guards)
    /\ guards' = guards (-) SetToBag({g})
    /\ locks' = ReleaseLocks(g)
    /\ pc' = ReleasePc(g)
    /\ UNCHANGED <<lists, mutex, call, m, res, ch, err, recvd, sub, stat>>

\* A client of the ListManager calls a release function it was given.
Release(g) ==
    /\ BagIn(g, guards)
    /\ guards' = guards (-) SetToBag({g})
    /\ locks' = ReleaseLocks(g)
    /\ pc' = ReleasePc(g)
    /\ UNCHANGED <<lists, mutex, call, m, res, ch, err, recvd, sub, stat>>

\* The caller has looked at the result and is free for its next call; what
\* the goroutines of its Init found and returned is forgotten with it.  A
\* client that got found=false from ReadList or WriteList calls the release
\* function it was given, func() {}, before that.
Return(p) ==
    /\ pc[p] = "done"
    /\ pc' = [pc EXCEPT ![p] = "idle"]
    /\ call' = [q \in Procs |-> IF q[1] = p[1] THEN NoCall ELSE call[q]]
    /\ res' = [q \in Procs |-> IF q[1] = p[1] THEN Nil ELSE res[q]]
    /\ m' = [m EXCEPT ![p] = 0]
    /\ locks' = IF IsDirect(call[p]) /\ res[p] = "false"
                THEN ReleaseLocks(Guard(call[p].path, 0, NoopFn))
                ELSE locks
    /\ sub' = [sub EXCEPT ![p[1]] = NoSub]
    /\ stat' = [stat EXCEPT ![p[1]] = NoStat]
    /\ UNCHANGED <<lists, mutex, guards, ch, err, recvd>>

\* --------------------------------------------------------------- Init
\* The error GetLists returns for a spool it cannot read.
DiscoveryError(spool) == spool[Len(spool)]

\* An Init without lm.lists = make(...): the goroutines add what they find
\* to the mapping as it is.
Init_Reset_Keep(t, spoolList, obs) ==
    /\ pc[Main(t)] = "idle"
    /\ pc' = [q \in Procs |->
                IF q = Main(t) THEN "init_recv"
                ELSE IF q[1] = t /\ q[2] \in 1..Len(spoolList) THEN "getlists"
                ELSE pc[q]]
    /\ call' = [q \in Procs |->
                IF q = Main(t)
                THEN [NoCall EXCEPT !.op = "Init", !.spools = spoolList, !.obs = obs]
                ELSE IF q[1] = t /\ q[2] \in 1..Len(spoolList)
                     THEN [NoCall EXCEPT !.op = "discover", !.spool = spoolList[q[2]]]
                ELSE IF q[1] = t THEN NoCall
                ELSE call[q]]
    /\ res' = [q \in Procs |-> IF q[1] = t THEN Nil ELSE res[q]]
    /\ ch' = [ch EXCEPT ![t] = <<>>]
    /\ err' = [err EXCEPT ![t] = Nil]
    /\ recvd' = [recvd EXCEPT ![t] = 0]
    /\ UNCHANGED <<lists, mutex, locks, m, guards, sub, stat>>

\* lm.lists = make(...), written without lm.mutex, and the start of one
\* goroutine per spool.  The unsynchronised write takes effect at some point
\* between the steps of the other goroutines: every such point is modelled.
Init_Reset(t, spoolList, obs) ==
    /\ pc[Main(t)] = "idle"
    /\ lists' = <<>>
    /\ pc' = [q \in Procs |->
                IF q = Main(t) THEN "init_recv"
                ELSE IF q[1] = t /\ q[2] \in 1..Len(spoolList) THEN "getlists"
                ELSE pc[q]]
    /\ call' = [q \in Procs |->
                IF q = Main(t)
                THEN [NoCall EXCEPT !.op = "Init", !.spools = spoolList, !.obs = obs]
                ELSE IF q[1] = t /\ q[2] \in 1..Len(spoolList)
                     THEN [NoCall EXCEPT !.op = "discover", !.spool = spoolList[q[2]]]
                ELSE IF q[1] = t THEN NoCall
                ELSE call[q]]
    /\ res' = [q \in Procs |-> IF q[1] = t THEN Nil ELSE res[q]]
    /\ ch' = [ch EXCEPT ![t] = <<>>]
    /\ err' = [err EXCEPT ![t] = Nil]
    /\ recvd' = [recvd EXCEPT ![t] = 0]
    /\ UNCHANGED <<mutex, locks, m, guards, sub, stat>>

\* lists, err := GetLists(spool) in a goroutine of Init: an error and no
\* list, or the directories of the spool.  With no list the goroutine sends
\* its error at once.  The goroutine's lists (found) and err (res) are kept
\* as they are when it has ended.
Init_GetLists(p) ==
    /\ pc[p] = "getlists"
    /\ \E failed \in BOOLEAN, listing \in Listings(call[p].spool) :
          /\ failed => listing = <<>>
          /\ CanAllocate(Len(listing))
          /\ LET e == IF failed THEN DiscoveryError(call[p].spool) ELSE Nil IN
             IF listing = <<>>
             THEN /\ ch' = [ch EXCEPT ![p[1]] = Append(@, e)]
                  /\ Goes(pc, p, "off", call[p], 0, e)
             ELSE /\ Goes(pc, p, "disc_add",
                          [call[p] EXCEPT !.todo = listing, !.found = listing], 0, e)
                  /\ UNCHANGED ch
    /\ UNCHANGED <<lists, mutex, locks, guards, err, recvd, sub, stat>>

\* lm.AddList(listDir(spool, list)) for the next discovered list.
Init_AddList(p) ==
    /\ pc[p] = "disc_add"
    /\ AddList(p, [call[p] EXCEPT !.path = listDir(call[p].spool, Head(call[p].todo))])

\* A loop that keeps the error it received last: err = next.
LastError(e, next) == next

\* if err == nil { err = next }: the first error received is kept.
FirstError(e, next) == IF e = Nil THEN next ELSE e

\* An Init that returns the first error it receives without waiting for the
\* goroutines of the other spools.
Init_Recv_ShortCircuit(t) ==
    /\ pc[Main(t)] = "init_recv"
    /\ ch[t] # <<>>
    /\ ch' = [ch EXCEPT ![t] = Tail(@)]
    /\ IF recvd[t] + 1 = Len(call[Main(t)].spools) \/ Head(ch[t]) # Nil
       THEN /\ Returns(pc, Main(t), call[Main(t)], FirstError(err[t], Head(ch[t])))
            /\ err' = [err EXCEPT ![t] = Nil]
            /\ recvd' = [recvd EXCEPT ![t] = 0]
       ELSE /\ err' = [err EXCEPT ![t] = FirstError(@, Head(ch[t]))]
            /\ recvd' = [recvd EXCEPT ![t] = @ + 1]
            /\ UNCHANGED <<pc, call, m, res>>
    /\ UNCHANGED <<lists, mutex, locks, guards, sub, stat>>

\* next := <-ch in the loop of Init; after len(spoolList) receptions Init
\* returns err.
Init_Recv(t) ==
    /\ pc[Main(t)] = "init_recv"
    /\ ch[t] # <<>>
    /\ ch' = [ch EXCEPT ![t] = Tail(@)]
    /\ IF recvd[t] + 1 = Len(call[Main(t)].spools)
       THEN /\ Returns(pc, Main(t), call[Main(t)], FirstError(err[t], Head(ch[t])))
            /\ err' = [err EXCEPT ![t] = Nil]
            /\ recvd' = [recvd EXCEPT ![t] = 0]
       ELSE /\ err' = [err EXCEPT ![t] = FirstError(@, Head(ch[t]))]
            /\ recvd' = [recvd EXCEPT ![t] = @ + 1]
            /\ UNCHANGED <<pc, call, m, res>>
    /\ UNCHANGED <<lists, mutex, locks, guards, sub, stat>>

\* -------------------------------------------------------- the handler
\* A NewMLMMJWrapper that returns the wrapper whatever Init returned.
NewMLMMJWrapper_Return_Always(t) ==
    /\ pc[Main(t)] = "done"
    /\ call[Main(t)].op = "Init"
    /\ call' = [call EXCEPT ![Main(t)].op = "NewMLMMJWrapper", ![Main(t)].wrapper = TRUE]
    /\ UNCHANGED <<lists, mutex, locks, pc, m, res, guards, ch, err, recvd, sub, stat>>

\* NewMLMMJWrapper after err := lm.Init(spools) on its new ListManager:
\* return nil, err with an error, the wrapper and nil without.
NewMLMMJWrapper_Return(t) ==
    /\ pc[Main(t)] = "done"
    /\ call[Main(t)].op = "Init"
    /\ call' = [call EXCEPT ![Main(t)].op = "NewMLMMJWrapper",
                            ![Main(t)].wrapper = (res[Main(t)] = Nil)]
    /\ UNCHANGED <<lists, mutex, locks, pc, m, res, guards, ch, err, recvd, sub, stat>>

\* SubRequest.GetArgs, as far as its error goes.
SubGetArgs(mode) ==
    IF mode \in {Moderator, Owner} THEN InvalidMode
    ELSE IF mode \in {Subscriber, Digest, Nomail} THEN Nil
    ELSE UnknownMode

\* UnsubRequest.GetArgs, as far as its error goes.
UnsubGetArgs(mode) ==
    IF mode \in {Moderator, Owner} THEN InvalidMode
    ELSE IF mode \in {Subscriber, Digest, Nomail, AllVersions} THEN Nil
    ELSE UnknownMode

\* GetListArgs, as far as its error goes.
GetListArgs(mode) ==
    IF mode \in {AllVersions, Digest, Moderator, Nomail, Owner, Subscriber} THEN Nil
    ELSE UnknownMode

\* What DockerHandler.post can return: success, the error of a failed
\* command or request, or the error of a context that was cancelled.
PostOutcomes == {Nil, ExecError, Canceled}

\* The errors a handler call of c can return: the error of the arguments,
\* before any request is made, or else what post returns.
HandlerOutcomes(c) ==
    LET argsErr == IF c.op = "Sub" THEN SubGetArgs(c.mode)
                   ELSE IF c.op = "Unsub" THEN UnsubGetArgs(c.mode)
                   ELSE IF c.op \in {"List", "Count"} THEN GetListArgs(c.mode)
                   ELSE Nil
    IN IF argsErr # Nil THEN {argsErr} ELSE PostOutcomes

\* -------------------------------------------------------- the wrapper
\* The release function the wrapper's operation op defers.
LockFn(op) == IF op \in {"Sub", "Unsub"} THEN UnlockFn ELSE RUnlockFn
HeldGuard(p) == Guard(call[p].path, m[p], LockFn(call[p].op))

\* An operation that returns e on the first error path only: the deferred
\* lock() is run when the handler succeeded and skipped when it failed.
Wrapper_ReturnUnlessError(p, c, e) ==
    /\ guards' = IF e = Nil THEN guards (-) SetToBag({HeldGuard(p)}) ELSE guards
    /\ locks' = IF e = Nil THEN ReleaseLocks(HeldGuard(p)) ELSE locks
    /\ Goes(IF e = Nil THEN ReleasePc(HeldGuard(p)) ELSE pc, p, "done", c, 0, e)
    /\ stat' = [stat EXCEPT ![p[1]].rel = IF e = Nil THEN @ + 1 ELSE @]

\* The return of an operation that holds a guard: the deferred lock() runs,
\* whatever e the operation returns.
Wrapper_Return(p, c, e) ==
    /\ guards' = guards (-) SetToBag({HeldGuard(p)})
    /\ locks' = ReleaseLocks(HeldGuard(p))
    /\ Goes(ReleasePc(HeldGuard(p)), p, "done", c, 0, e)
    /\ stat' = [stat EXCEPT ![p[1]].rel = @ + 1]

Request(op, name, mode) ==
    [NoCall EXCEPT !.op = op, !.spool = TheSpool, !.name = name, !.mode = mode,
                   !.path = listDir(TheSpool, name), !.obs = TRUE]

\* MakeML calls the handler first, with no lock.
Call_MakeML(t, name) ==
    /\ pc[Main(t)] = "idle"
    /\ Goes(pc, Main(t), "mk_handler",
            [NoCall EXCEPT !.op = "MakeML", !.spool = TheSpool, !.name = name, !.obs = TRUE],
            0, Nil)
    /\ stat' = [stat EXCEPT ![t].calls = @ + 1]
    /\ UNCHANGED <<lists, mutex, locks, guards, ch, err, recvd, sub>>

\* A MakeML that returns what the handler returns and registers nothing.
MakeML_HandlerReturn_NoAdd(t) ==
    /\ pc[Main(t)] = "mk_handler"
    /\ \E e \in PostOutcomes : Goes(pc, Main(t), "done", call[Main(t)], 0, e)
    /\ UNCHANGED <<lists, mutex, locks, guards, ch, err, recvd, sub, stat>>

\* handler.MakeML returns: with an error MakeML returns it, without one it
\* goes on with lm.AddList(listDir(spool, name)).
MakeML_HandlerReturn(t) ==
    /\ pc[Main(t)] = "mk_handler"
    /\ \E e \in PostOutcomes :
          IF e # Nil
          THEN /\ Goes(pc, Main(t), "done", call[Main(t)], 0, e)
               /\ UNCHANGED <<lists, mutex, locks, guards, ch, err, recvd, sub, stat>>
          ELSE AddList(Main(t), [call[Main(t)] EXCEPT
                                   !.path = listDir(call[Main(t)].spool, call[Main(t)].name)])

\* A Sub that takes the list's read guard.
Call_Sub_ReadGuard(t, name, mode) ==
    /\ pc[Main(t)] = "idle"
    /\ ReadList(Main(t), Request("Sub", name, mode))

Call_Sub(t, name, mode) ==
    /\ pc[Main(t)] = "idle"
    /\ WriteList(Main(t), Request("Sub", name, mode))

Call_Unsub(t, name, mode) ==
    /\ pc[Main(t)] = "idle"
    /\ WriteList(Main(t), Request("Unsub", name, mode))

Call_List(t, name, mode) ==
    /\ pc[Main(t)] = "idle"
    /\ ReadList(Main(t), Request("List", name, mode))

Call_Count(t, name, mode) ==
    /\ pc[Main(t)] = "idle"
    /\ ReadList(Main(t), Request("Count", name, mode))

Call_ListAllMembers(t, name) ==
    /\ pc[Main(t)] = "idle"
    /\ ReadList(Main(t), Request("ListAllMembers", name, NoMode))

Call_ListAllControllers(t, name) ==
    /\ pc[Main(t)] = "idle"
    /\ ReadList(Main(t), Request("ListAllControllers", name, NoMode))

\* The handler call of Sub, Unsub, List or Count returns e, and so does the
\* operation after its deferred lock().
Handler_Return(t) ==
    /\ pc[Main(t)] = "handler"
    /\ \E e \in HandlerOutcomes(call[Main(t)]) : Wrapper_Return(Main(t), call[Main(t)], e)
    /\ UNCHANGED <<lists, mutex, ch, err, recvd, sub>>

\* The error of a failed sub-query of category k.
ListError(k) ==
    IF k = Subscriber THEN "Subscriber failed" ELSE IF k = Digest THEN "Digest failed"
    ELSE IF k = Nomail THEN "Nomail failed" ELSE IF k = Moderator THEN "Moderator failed"
    ELSE "Owner failed"

\* A goroutine of category k whose failed query also throws away the data
\* that the goroutines of the other categories have stored.
Fan_SubReturn_Discard(t, k) ==
    /\ pc[Main(t)] = "fan_recv"
    /\ sub[t][k] = "run"
    /\ \E ok \in BOOLEAN :
          /\ sub' = [sub EXCEPT ![t] =
                       [j \in Categories |->
                          IF j = k THEN (IF ok THEN "data" ELSE "nil")
                          ELSE IF ~ok /\ sub[t][j] = "data" THEN "nil" ELSE sub[t][j]]]
          /\ ch' = [ch EXCEPT ![t] = Append(@, IF ok THEN Nil ELSE ListError(k))]
    /\ UNCHANGED <<lists, mutex, locks, pc, call, m, res, guards, err, recvd, stat>>

\* handler.List returns in the goroutine of category k: the goroutine
\* stores the data (nil with an error) and sends the error on ch.
Fan_SubReturn(t, k) ==
    /\ pc[Main(t)] = "fan_recv"
    /\ sub[t][k] = "run"
    /\ \E ok \in BOOLEAN :
          /\ sub' = [sub EXCEPT ![t][k] = IF ok THEN "data" ELSE "nil"]
          /\ ch' = [ch EXCEPT ![t] = Append(@, IF ok THEN Nil ELSE ListError(k))]
    /\ UNCHANGED <<lists, mutex, locks, pc, call, m, res, guards, err, recvd, stat>>

\* A fan-out operation that returns, after its deferred lock(), at the first
\* reception, without waiting for the other goroutines.
Fan_Recv_First(t) ==
    /\ pc[Main(t)] = "fan_recv"
    /\ ch[t] # <<>>
    /\ ch' = [ch EXCEPT ![t] = Tail(@)]
    /\ Wrapper_Return(Main(t), call[Main(t)], FirstError(err[t], Head(ch[t])))
    /\ err' = [err EXCEPT ![t] = Nil]
    /\ recvd' = [recvd EXCEPT ![t] = 0]
    /\ UNCHANGED <<lists, mutex, sub>>

\* nextErr := <-ch in the loop of a fan-out operation; after one reception
\* per category the operation returns err after its deferred lock().
Fan_Recv(t) ==
    /\ pc[Main(t)] = "fan_recv"
    /\ ch[t] # <<>>
    /\ ch' = [ch EXCEPT ![t] = Tail(@)]
    /\ IF recvd[t] + 1 = Cardinality(FanOut(call[Main(t)].op))
       THEN /\ Wrapper_Return(Main(t), call[Main(t)], FirstError(err[t], Head(ch[t])))
            /\ err' = [err EXCEPT ![t] = Nil]
            /\ recvd' = [recvd EXCEPT ![t] = 0]
       ELSE /\ err' = [err EXCEPT ![t] = FirstError(@, Head(ch[t]))]
            /\ recvd' = [recvd EXCEPT ![t] = @ + 1]
            /\ UNCHANGED <<locks, pc, call, m, res, guards, stat>>
    /\ UNCHANGED <<lists, mutex, sub>>

\* ------------------------------------------------- the specifications
\* Two clients call the ListManager directly and release what they
\* acquired, and the first of them may run Init again and looks at what
\* its calls return.
Clients == {"t1", "t2"}
Next ==
    \/ \E t \in Clients, path \in ClientPaths : Call_AddList(t, path, t = InitTask)
    \/ \E t \in Clients, path \in ClientPaths : Call_RemoveList(t, path, t = InitTask)
    \/ \E t \in Clients, path \in ClientPaths : Call_ReadList(t, path, t = InitTask)
    \/ \E t \in Clients, path \in ClientPaths : Call_WriteList(t, path, t = InitTask)
    \/ \E g \in BagToSet(guards) : Release(g)
    \/ \E sl \in SpoolLists : Init_Reset(InitTask, sl, TRUE)
    \/ \E p \in Procs : Init_GetLists(p)
    \/ \E p \in Procs : Init_AddList(p)
    \/ \E t \in Clients : Init_Recv(t)
    \/ \E p \in Procs : AddList_Locked(p)
    \/ \E p \in Procs : AddList_Drained(p)
    \/ \E p \in Procs : RemoveList_Locked(p)
    \/ \E p \in Procs : RemoveList_Drained(p)
    \/ \E p \in Procs : ReadList_RLocked(p)
    \/ \E p \in Procs : ReadList_MRLocked(p)
    \/ \E p \in Procs : WriteList_RLocked(p)
    \/ \E p \in Procs : WriteList_MLocked(p)
    \/ \E p \in Procs : WriteList_MDrained(p)
    \/ \E p \in Procs : Return(p)

Spec == Init /\ [][Next]_vars

\* Three clients call the ListManager directly, none runs Init.
NextContend ==
    \/ \E t \in Tasks, path \in ClientPaths : Call_AddList(t, path, FALSE)
    \/ \E t \in Tasks, path \in ClientPaths : Call_RemoveList(t, path, FALSE)
    \/ \E t \in Tasks, path \in ClientPaths : Call_ReadList(t, path, FALSE)
    \/ \E t \in Tasks, path \in ClientPaths : Call_WriteList(t, path, FALSE)
    \/ \E g \in BagToSet(guards) : Release(g)
    \/ \E p \in Procs : AddList_Locked(p)
    \/ \E p \in Procs : AddList_Drained(p)
    \/ \E p \in Procs : RemoveList_Locked(p)
    \/ \E p \in Procs : RemoveList_Drained(p)
    \/ \E p \in Procs : ReadList_RLocked(p)
    \/ \E p \in Procs : ReadList_MRLocked(p)
    \/ \E p \in Procs : WriteList_RLocked(p)
    \/ \E p \in Procs : WriteList_MLocked(p)
    \/ \E p \in Procs : WriteList_MDrained(p)

SpecContend == Init /\ [][NextContend]_vars

\* Two callers use the wrapper.
SubModes == {Subscriber, Owner}
UnsubModes == {AllVersions, Moderator}
ListModes == {Subscriber}
NextWrapper ==
    \/ \E t \in Clients, name \in ListNames : Call_MakeML(t, name)
    \/ \E t \in Clients : MakeML_HandlerReturn(t)
    \/ \E t \in Clients, name \in ListNames, mode \in SubModes : Call_Sub(t, name, mode)
    \/ \E t \in Clients, name \in ListNames, mode \in UnsubModes : Call_Unsub(t, name, mode)
    \/ \E t \in Clients, name \in ListNames, mode \in ListModes : Call_List(t, name, mode)
    \/ \E t \in Clients, name \in ListNames, mode \in ListModes : Call_Count(t, name, mode)
    \/ \E t \in Clients, name \in ListNames : Call_ListAllMembers(t, name)
    \/ \E t \in Clients, name \in ListNames : Call_ListAllControllers(t, name)
    \/ \E t \in Clients : Handler_Return(t)
    \/ \E t \in Clients, k \in Categories : Fan_SubReturn(t, k)
    \/ \E t \in Clients : Fan_Recv(t)
    \/ \E p \in Procs : AddList_Locked(p)
    \/ \E p \in Procs : AddList_Drained(p)
    \/ \E p \in Procs : ReadList_RLocked(p)
    \/ \E p \in Procs : ReadList_MRLocked(p)
    \/ \E p \in Procs : WriteList_RLocked(p)
    \/ \E p \in Procs : WriteList_MLocked(p)
    \/ \E p \in Procs : WriteList_MDrained(p)
    \/ \E p \in Procs : Return(p)

SpecWrapper == Init /\ [][NextWrapper]_vars

\* One caller uses the wrapper on a manager that discovered no list.
InitEmpty == Init /\ lists = <<>>
NextScenario ==
    \/ \E name \in ListNames : Call_MakeML(InitTask, name)
    \/ MakeML_HandlerReturn(InitTask)
    \/ \E name \in ListNames, mode \in SubModes : Call_Sub(InitTask, name, mode)
    \/ \E name \in ListNames, mode \in UnsubModes : Call_Unsub(InitTask, name, mode)
    \/ \E name \in ListNames, mode \in ListModes : Call_List(InitTask, name, mode)
    \/ \E name \in ListNames, mode \in ListModes : Call_Count(InitTask, name, mode)
    \/ Handler_Return(InitTask)
    \/ Return(Main(InitTask))

SpecScenario == InitEmpty /\ [][NextScenario]_vars

\* One client calls the ListManager and runs Init again, with no other
\* client at work.
NextRescan ==
    \/ \E path \in ClientPaths : Call_AddList(InitTask, path, TRUE)
    \/ \E path \in ClientPaths : Call_RemoveList(InitTask, path, TRUE)
    \/ \E path \in ClientPaths : Call_ReadList(InitTask, path, TRUE)
    \/ \E path \in ClientPaths : Call_WriteList(InitTask, path, TRUE)
    \/ \E g \in BagToSet(guards) : Release(g)
    \/ \E sl \in SpoolLists : Init_Reset(InitTask, sl, TRUE)
    \/ \E p \in Procs : Init_GetLists(p)
    \/ \E p \in Procs : Init_AddList(p)
    \/ Init_Recv(InitTask)
    \/ Return(Main(InitTask))

SpecRescan == Init /\ [][NextRescan]_vars

\* One client holds guards, runs Init again and calls the wrapper; it
\* removes no list, so that a registered name disappears through Init only,
\* and it releases the guards it took from ReadList/WriteList outside its
\* calls of the wrapper.
NextReinit ==
    \/ \E path \in ClientPaths : Call_AddList(InitTask, path, TRUE)
    \/ \E path \in ClientPaths : Call_ReadList(InitTask, path, TRUE)
    \/ \E path \in ClientPaths : Call_WriteList(InitTask, path, TRUE)
    \/ \E g \in BagToSet(guards) : pc[Main(InitTask)] # "handler" /\ Release(g)
    \/ \E sl \in SpoolLists : Init_Reset(InitTask, sl, TRUE)
    \/ \E p \in Procs : Init_GetLists(p)
    \/ \E p \in Procs : Init_AddList(p)
    \/ Init_Recv(InitTask)
    \/ \E name \in ListNames, mode \in SubModes : Call_Sub(InitTask, name, mode)
    \/ \E name \in ListNames, mode \in ListModes : Call_List(InitTask, name, mode)
    \/ Handler_Return(InitTask)
    \/ Return(Main(InitTask))

SpecReinit == Init /\ [][NextReinit]_vars

\* The first client calls the wrapper; the second calls the ListManager
\* directly, takes one guard at a time from ReadList/WriteList and calls its
\* release function at some time, whatever else it is calling.  Every
\* handler call returns and every goroutine that can go on does: a Lock()
\* that waits for a mutex gets it at some time (sync.Mutex hands a mutex
\* over to a goroutine that has waited for it for long).
WrapperTask == InitTask
DirectTasks == Clients \ {WrapperTask}
DirectGuards ==
    IF pc[Main(WrapperTask)] = "handler"
    THEN guards (-) SetToBag({HeldGuard(Main(WrapperTask))})
    ELSE guards
NoDirectGuard ==
    /\ DirectGuards = EmptyBag
    /\ \A t \in DirectTasks : ~IsDirect(call[Main(t)])
\* The AddList that a MakeML in its handler call is going to make finds a
\* sync.RWMutex to allocate.
MakeMLCanAllocate == pc[Main(WrapperTask)] = "mk_handler" => CanAllocate(2)

NextFair ==
    \/ \E name \in ListNames : CanAllocate(1) /\ Call_MakeML(WrapperTask, name)
    \/ \E name \in ListNames : Call_Sub(WrapperTask, name, Subscriber)
    \/ \E name \in ListNames : Call_List(WrapperTask, name, Subscriber)
    \/ Handler_Return(WrapperTask)
    \/ MakeML_HandlerReturn(WrapperTask)
    \/ Return(Main(WrapperTask))
    \/ \E t \in DirectTasks, path \in ClientPaths :
          MakeMLCanAllocate /\ Call_AddList(t, path, FALSE)
    \/ \E t \in DirectTasks, path \in ClientPaths : Call_RemoveList(t, path, FALSE)
    \/ \E t \in DirectTasks, path \in ClientPaths :
          NoDirectGuard /\ Call_ReadList(t, path, FALSE)
    \/ \E t \in DirectTasks, path \in ClientPaths :
          NoDirectGuard /\ Call_WriteList(t, path, FALSE)
    \/ \E g \in BagToSet(DirectGuards) : Release(g)
    \/ \E p \in Procs : AddList_Locked(p)
    \/ \E p \in Procs : AddList_Drained(p)
    \/ \E p \in Procs : RemoveList_Locked(p)
    \/ \E p \in Procs : RemoveList_Drained(p)
    \/ \E p \in Procs : ReadList_RLocked(p)
    \/ \E p \in Procs : ReadList_MRLocked(p)
    \/ \E p \in Procs : WriteList_RLocked(p)
    \/ \E p \in Procs : WriteList_MLocked(p)
    \/ \E p \in Procs : WriteList_MDrained(p)

Fairness ==
    /\ WF_vars(Handler_Return(WrapperTask))
    /\ WF_vars(MakeML_HandlerReturn(WrapperTask))
    /\ WF_vars(\E g \in BagToSet(DirectGuards) : Release(g))
    /\ \A t \in Clients :
          /\ SF_vars(AddList_Locked(Main(t))) /\ WF_vars(AddList_Drained(Main(t)))
          /\ SF_vars(RemoveList_Locked(Main(t))) /\ WF_vars(RemoveList_Drained(Main(t)))
          /\ WF_vars(ReadList_RLocked(Main(t))) /\ WF_vars(ReadList_MRLocked(Main(t)))
          /\ WF_vars(WriteList_RLocked(Main(t))) /\ SF_vars(WriteList_MLocked(Main(t)))
          /\ WF_vars(WriteList_MDrained(Main(t)))

SpecFair == Init /\ [][NextFair]_vars /\ Fairness

\* NewMLMMJWrapper is called, time and again: a new ListManager, its Init
\* over the spools, and the return of the wrapper or of the error.
NewListManager == Init /\ lists = <<>>
NextNew ==
    \/ \E sl \in SpoolLists : Init_Reset(InitTask, sl, TRUE)
    \/ \E p \in Procs : Init_GetLists(p)
    \/ \E p \in Procs : Init_AddList(p)
    \/ Init_Recv(InitTask)
    \/ NewMLMMJWrapper_Return(InitTask)
    \/ pc[Main(InitTask)] = "done" /\ call[Main(InitTask)].op = "NewMLMMJWrapper"
          /\ Return(Main(InitTask))

SpecNew == NewListManager /\ [][NextNew]_vars

\* ------------------------------------------------------- the properties
\* The release functions of mode fn for the mutex l that were returned and
\* not yet called, and their number.
Held(l, fn) ==
    [g \in {h \in BagToSet(guards) : h.lock = l /\ h.mode = fn} |-> CopiesIn(g, guards)]
NHeld(l, fn) == BagCardinality(Held(l, fn))

\* C1: for one lock instance at most one write guard is outstanding at any
\* time: a second WriteList on the name does not return found=true until
\* the first holder has called its release function.
C1_OneWriteGuard == \A l \in LockIds : NHeld(l, UnlockFn) <= 1

\* A write guard is outstanding on a name that is still registered with the
\* same mutex, and a second WriteList on the name waits for it.
C1_Witness ==
    \E p \in Procs :
        /\ pc[p] = "wl_mlock" /\ call[p].op = "WriteList"
        /\ call[p].path \in DOMAIN lists /\ lists[call[p].path] = m[p]
        /\ NHeld(m[p], UnlockFn) = 1

\* C2: whoever holds a write guard obtained for name N is the only holder
\* of any guard (read or write) obtained for N, also when N is removed and
\* added again or the registry is initialized again meanwhile.
C2_WriterAloneOnName ==
    \A g \in BagToSet(guards) :
        g.mode = UnlockFn =>
            /\ CopiesIn(g, guards) = 1
            /\ \A h \in BagToSet(guards) : h.path = g.path => h = g

\* C3: a write guard and a read guard on the same lock are never
\* outstanding together: WriteList returns found=true only after every read
\* guard on the lock has been released, and no ReadList on the lock returns
\* found=true while the write guard is outstanding.
C3_ReadersExcludeWriter ==
    \A l \in LockIds : NHeld(l, UnlockFn) = 0 \/ NHeld(l, RUnlockFn) = 0

\* A WriteList waits for the read guards on its list's mutex to be released.
C3_Witness ==
    \E p \in Procs :
        /\ pc[p] = "wl_mdrain" /\ call[p].op = "WriteList"
        /\ NHeld(m[p], RUnlockFn) >= 1

\* The goroutine q holds lm.mutex for reading and waits for the mutex of
\* its registered list, which some guard holds.
WaitsForList(q) ==
    /\ pc[q] \in {"rl_mwait", "wl_mlock", "wl_mdrain"}
    /\ call[q].path \in DOMAIN lists /\ lists[call[q].path] = m[q]
    /\ NHeld(m[q], UnlockFn) + NHeld(m[q], RUnlockFn) >= 1

\* C4: a ReadList or WriteList request on a registered name B is never kept
\* from being granted by guards held or requested on another name A: it
\* never waits, with B's mutex unlocked, behind a Lock of lm.mutex that
\* itself waits only for requests on other names that wait for a guard.
C4_NamesIndependent ==
    \A p \in Procs :
        (/\ pc[p] \in {"rl_rwait", "wl_rwait"}
         /\ call[p].path \in DOMAIN lists
         /\ locks[lists[call[p].path]] = RWFree)
        => ~(/\ mutex.w
             /\ mutex.readers >= 1
             /\ mutex.readers = Cardinality({q \in Procs :
                    WaitsForList(q) /\ call[q].path # call[p].path}))

\* The operations of the wrapper that take a guard.
GuardOps == {"Sub", "Unsub", "List", "Count", "ListAllMembers", "ListAllControllers"}
Holding == {"handler", "fan_recv"}

\* C5: an operation that takes a guard calls the release function once on
\* every path on which it returns, never more often than it acquired, and
\* the guards outstanding and the state of every list's mutex are those of
\* the operations still under way: none is left behind, none released twice.
C5_ReleasedExactlyOnce ==
    /\ \A t \in Clients :
          /\ stat[t].rel <= stat[t].acq /\ stat[t].acq <= 1
          /\ (pc[Main(t)] = "done" /\ call[Main(t)].op \in GuardOps)
                => (stat[t].acq = 1 /\ stat[t].rel = 1)
    /\ NGuards = Cardinality({t \in Clients : pc[Main(t)] \in Holding})
    /\ \A l \in LockIds :
          /\ locks[l].readers =
                NHeld(l, RUnlockFn) + Cardinality({p \in Procs : pc[p] = "rl_ret" /\ m[p] = l})
          /\ locks[l].w <=>
                (NHeld(l, UnlockFn) = 1 \/ \E p \in Procs : pc[p] = "wl_mdrain" /\ m[p] = l)

\* One operation has returned the error of a cancelled context and the
\* other UnwatchedList, each after one call of its release function.
C5_Witness ==
    \E t, u \in Clients :
        /\ pc[Main(t)] = "done" /\ call[Main(t)].op \in GuardOps
        /\ res[Main(t)] = Canceled /\ stat[t].rel = 1
        /\ pc[Main(u)] = "done" /\ call[Main(u)].op \in GuardOps
        /\ res[Main(u)] = UnwatchedList /\ stat[u].rel = 1

\* C6: when the composed name is absent from the registry at the lookup,
\* the operation returns UnwatchedList, has called the handler not at all
\* and has started no sub-query; and UnwatchedList is returned in this case
\* only.
C6_UnwatchedNoHandler ==
    [][\A t \in Clients :
          LET p == Main(t) IN
          /\ (/\ pc[p] \in {"idle", "rl_lookup", "wl_lookup"}
              /\ pc'[p] \notin {"idle", "rl_rwait", "wl_rwait", "rl_lookup", "wl_lookup"}
              /\ call'[p].op \in GuardOps
              /\ call'[p].path \notin DOMAIN lists)
             => (/\ pc'[p] = "done" /\ res'[p] = UnwatchedList
                 /\ stat'[t].calls = 0 /\ sub'[t] = NoSub)
          /\ (/\ pc[p] # "done" /\ pc'[p] = "done"
              /\ call'[p].op \in GuardOps /\ res'[p] = UnwatchedList)
             => (/\ call'[p].path \notin DOMAIN lists
                 /\ stat'[t].calls = 0 /\ sub'[t] = NoSub)]_vars

\* A fan-out operation has returned UnwatchedList.
C6_Witness ==
    \E t \in Clients :
        /\ pc[Main(t)] = "done" /\ call[Main(t)].op = "ListAllMembers"
        /\ res[Main(t)] = UnwatchedList /\ stat[t].calls = 0

\* C7: during its handler call Sub or Unsub holds the write guard of the
\* list and List, Count, ListAllMembers or ListAllControllers the read
\* guard, so that no other handler call on the list overlaps with a handler
\* call of Sub or Unsub.
C7_GuardHeldDuringHandler ==
    \A t \in Clients :
        LET p == Main(t) IN
        pc[p] \in Holding =>
            /\ BagIn(HeldGuard(p), guards)
            /\ call[p].path \in DOMAIN lists /\ lists[call[p].path] = m[p]
            /\ IF call[p].op \in {"Sub", "Unsub"}
               THEN /\ HeldGuard(p).mode = UnlockFn
                    /\ locks[m[p]] = [w |-> TRUE, readers |-> 0]
                    /\ \A u \in Clients \ {t} :
                          pc[Main(u)] \in Holding => call[Main(u)].path # call[p].path
               ELSE /\ HeldGuard(p).mode = RUnlockFn
                    /\ locks[m[p]].readers >= 1

\* Sub is in its handler call and another operation on the same list waits.
C7_Witness ==
    \E t, u \in Clients :
        /\ pc[Main(t)] = "handler" /\ call[Main(t)].op = "Sub"
        /\ pc[Main(u)] \in {"rl_mwait", "wl_mlock"}
        /\ call[Main(u)].path = call[Main(t)].path

\* C8: a Sub or Unsub whose Mode is Moderator or Owner acquires nothing
\* from WriteList and calls no handler, and returns the invalid-mode error.
C8_RejectedBeforeGuard ==
    \A t \in Clients :
        LET c == call[Main(t)] IN
        (c.op \in {"Sub", "Unsub"} /\ c.mode \in {Moderator, Owner}) =>
            /\ stat[t].acq = 0
            /\ stat[t].calls = 0
            /\ pc[Main(t)] = "done" => res[Main(t)] = InvalidMode

\* The operations that change lm.lists in the wrapper: a MakeML between
\* its handler call and its return.
InAddList == {"mk_handler", "add_lock", "add_body"}

\* C9: MakeML calls the handler with no guard and no lock taken, goes on to
\* AddList(listDir(spool, name)) only from a handler call that returned nil,
\* and leaves the mapping as it is when the handler returns an error; an
\* entry of the mapping is never replaced, so that a second successful
\* creation of a name leaves the one entry and its lock as they are.
C9_MakeMLRegisters ==
    [][/\ \A q \in DOMAIN lists : q \in DOMAIN lists' /\ lists'[q] = lists[q]
       /\ \A t \in Clients :
             LET p == Main(t) IN
             /\ pc'[p] = "mk_handler" => (m'[p] = 0 /\ stat'[t].acq = 0)
             /\ (pc[p] = "idle" /\ pc'[p] = "mk_handler")
                   => UNCHANGED <<lists, mutex, locks, guards>>
             /\ (pc[p] = "mk_handler" /\ pc'[p] = "done" /\ res'[p] # Nil) => lists' = lists
             /\ pc'[p] \in {"add_lock", "add_body"}
                   => (/\ pc[p] \in InAddList
                       /\ call'[p].path = listDir(call'[p].spool, call'[p].name))
       /\ lists' # lists =>
             \E t \in Clients :
                 LET p == Main(t) IN
                 /\ pc[p] \in InAddList /\ pc'[p] = "done" /\ res'[p] = Nil
                 /\ DOMAIN lists' = DOMAIN lists \cup {listDir(call'[p].spool, call'[p].name)}]_vars

\* Two creations of the same name have both succeeded.
C9_Witness ==
    \E t, u \in Clients :
        /\ t # u
        /\ pc[Main(t)] = "done" /\ call[Main(t)].op = "MakeML" /\ res[Main(t)] = Nil
        /\ pc[Main(u)] = "done" /\ call[Main(u)].op = "MakeML" /\ res[Main(u)] = Nil
        /\ call[Main(t)].name = call[Main(u)].name
        /\ call[Main(t)].path \in DOMAIN lists

\* C10: from the empty registry, a MakeML that succeeds at the handler
\* leaves the composed name in the registry, where it stays; a name is in
\* the registry only through such a MakeML; a Sub for a name in the
\* registry reaches the handler, and a Sub for any other name returns
\* UnwatchedList without a handler call.
C10_CreateThenSubscribe ==
    [][LET p == Main(InitTask) IN
       /\ (pc[p] # "done" /\ pc'[p] = "done" /\ call'[p].op = "MakeML" /\ res'[p] = Nil)
             => listDir(call'[p].spool, call'[p].name) \in DOMAIN lists'
       /\ DOMAIN lists \subseteq DOMAIN lists'
       /\ lists' # lists =>
             (/\ call'[p].op = "MakeML" /\ pc'[p] = "done" /\ res'[p] = Nil
              /\ DOMAIN lists' = DOMAIN lists \cup {listDir(call'[p].spool, call'[p].name)})
       /\ (pc[p] = "idle" /\ call'[p].op = "Sub") =>
             IF listDir(call'[p].spool, call'[p].name) \in DOMAIN lists
             THEN pc'[p] = "handler" /\ stat'[InitTask].calls = 1
             ELSE /\ pc'[p] = "done" /\ res'[p] = UnwatchedList
                  /\ stat'[InitTask].calls = 0]_vars

\* After the creation of alpha, a Sub for beta has returned UnwatchedList.
C10_Witness ==
    LET p == Main(InitTask) IN
    /\ DOMAIN lists = {listDir(TheSpool, <<"alpha">>)}
    /\ pc[p] = "done" /\ call[p].op = "Sub" /\ call[p].name = <<"beta">>
    /\ res[p] = UnwatchedList /\ stat[InitTask].calls = 0

\* The categories of a fan-out operation in the order of its goroutines.
CategoryOrder(op) ==
    IF op = "ListAllMembers" THEN <<Subscriber, Digest, Nomail>> ELSE <<Owner, Moderator>>
\* The positions in that order of the categories whose query failed for t.
FailedAt(t) ==
    {i \in 1..Len(CategoryOrder(call[Main(t)].op)) :
        sub[t][CategoryOrder(call[Main(t)].op)[i]] = "nil"}
\* The error of the leftmost category whose query failed for t, nil if none.
LeftmostError(t) ==
    IF FailedAt(t) = {} THEN Nil
    ELSE ListError(CategoryOrder(call[Main(t)].op)
                      [CHOOSE i \in FailedAt(t) : \A j \in FailedAt(t) : i <= j])

\* C11: a fan-out operation on a registered list returns the error of the
\* leftmost category whose sub-query failed, in whatever order the
\* sub-queries finish.
C11_LeftmostErrorWins ==
    \A t \in Clients :
        (/\ pc[Main(t)] = "done" /\ FanOut(call[Main(t)].op) # {}
         /\ res[Main(t)] # UnwatchedList)
        => res[Main(t)] = LeftmostError(t)

\* C12: ListAllMembers on a registered list starts its three queries
\* together; what a query has stored stays as it is until the operation
\* returns, whatever the other queries do; and when exactly one query
\* failed, the operation returns that query's error and the data of the
\* other two.
C12_PartialDataKept ==
    [][\A t \in Clients :
          LET p == Main(t) IN
          /\ (pc[p] # "fan_recv" /\ pc'[p] = "fan_recv" /\ call'[p].op = "ListAllMembers")
                => \A k \in {Subscriber, Digest, Nomail} : sub'[t][k] = "run"
          /\ pc[p] = "fan_recv"
                => \A k \in Categories :
                      sub[t][k] \in {"data", "nil"} => sub'[t][k] = sub[t][k]
          /\ (pc[p] = "fan_recv" /\ pc'[p] = "done" /\ call'[p].op = "ListAllMembers")
                => \A k \in {Subscriber, Digest, Nomail} :
                      (\A j \in {Subscriber, Digest, Nomail} : sub'[t][j] = "nil" <=> j = k)
                      => (/\ res'[p] = ListError(k) /\ res'[p] # Nil
                          /\ \A j \in {Subscriber, Digest, Nomail} \ {k} : sub'[t][j] = "data")]_vars

\* ListAllMembers has returned after the Digest query alone failed.
C12_Witness ==
    \E t \in Clients :
        /\ pc[Main(t)] = "done" /\ call[Main(t)].op = "ListAllMembers"
        /\ res[Main(t)] = ListError(Digest)
        /\ sub[t][Subscriber] = "data" /\ sub[t][Digest] = "nil" /\ sub[t][Nomail] = "data"

\* C13: a ReadList or WriteList whose name is not in the registry at the
\* lookup returns found=false and leaves the mapping, every per-list mutex
\* and the outstanding release functions as they are, and so does the call
\* of the release function it returned; found=false is returned for such a
\* name only.
C13_UnknownNameNoEffect ==
    [][LET p == Main(InitTask) IN
       /\ (/\ pc[p] \in {"idle", "rl_lookup", "wl_lookup"}
           /\ pc'[p] \notin {"idle", "rl_rwait", "wl_rwait", "rl_lookup", "wl_lookup"}
           /\ IsDirect(call'[p])
           /\ call'[p].path \notin DOMAIN lists)
          => (/\ pc'[p] = "done" /\ res'[p] = "false"
              /\ UNCHANGED <<lists, locks, guards>>)
       /\ (pc[p] # "done" /\ pc'[p] = "done" /\ IsDirect(call'[p]) /\ res'[p] = "false")
          => call'[p].path \notin DOMAIN lists
       /\ (pc[p] = "done" /\ pc'[p] = "idle" /\ IsDirect(call[p]) /\ res[p] = "false")
          => UNCHANGED <<lists, mutex, locks, guards>>]_vars

\* A WriteList has returned found=false while a guard on a list is held.
C13_Witness ==
    /\ pc[Main(InitTask)] = "done" /\ call[Main(InitTask)].op = "WriteList"
    /\ res[Main(InitTask)] = "false"
    /\ NGuards >= 1

\* The step in which the AddList or RemoveList called by the observed
\* client runs its body and returns.
BodyOf(op) ==
    /\ pc[Main(InitTask)] # "done" /\ pc'[Main(InitTask)] = "done"
    /\ call'[Main(InitTask)].op = op

\* C14: AddList of an absent name returns true and maps the name to a new
\* mutex, one that nothing referred to and that is unlocked; AddList of a
\* present name returns false and leaves the mapping as it is; in both cases
\* the other entries, and the state of every per-list mutex, stay the same.
C14_AddListOnce ==
    [][BodyOf("AddList") =>
          LET path == call'[Main(InitTask)].path IN
          /\ locks' = locks
          /\ IF path \notin DOMAIN lists
             THEN /\ res'[Main(InitTask)] = "true"
                  /\ DOMAIN lists' = DOMAIN lists \cup {path}
                  /\ \A q \in DOMAIN lists : lists'[q] = lists[q]
                  /\ lists'[path] \in LockIds \ UsedLocks
                  /\ locks'[lists'[path]] = RWFree
             ELSE /\ res'[Main(InitTask)] = "false"
                  /\ lists' = lists]_vars

\* A second AddList of a name has returned false while a guard on the
\* name's mutex is held.
C14_Witness ==
    LET p == Main(InitTask) IN
    /\ pc[p] = "done" /\ call[p].op = "AddList" /\ res[p] = "false"
    /\ call[p].path \in DOMAIN lists
    /\ NHeld(lists[call[p].path], UnlockFn) + NHeld(lists[call[p].path], RUnlockFn) >= 1

\* C15: RemoveList of an absent name returns false and leaves the mapping
\* as it is; RemoveList of a present name returns true and removes that
\* entry and no other; in both cases the per-list mutexes stay the same.
C15_RemoveListExact ==
    [][BodyOf("RemoveList") =>
          LET path == call'[Main(InitTask)].path IN
          /\ locks' = locks
          /\ IF path \notin DOMAIN lists
             THEN /\ res'[Main(InitTask)] = "false"
                  /\ lists' = lists
             ELSE /\ res'[Main(InitTask)] = "true"
                  /\ DOMAIN lists' = DOMAIN lists \ {path}
                  /\ \A q \in DOMAIN lists' : lists'[q] = lists[q]]_vars

\* A RemoveList has returned true and another entry is left.
C15_Witness ==
    LET p == Main(InitTask) IN
    /\ pc[p] = "done" /\ call[p].op = "RemoveList" /\ res[p] = "true"
    /\ DOMAIN lists # {}

\* The release function g comes from an entry that is no longer in the
\* mapping: its name was removed, or is mapped to another mutex since.
Orphaned(g) == g.path \notin DOMAIN lists \/ lists[g.path] # g.lock

\* C16: from the return of a RemoveList(name) that returned true and as
\* long as the name is not in the mapping again, no ReadList or WriteList on
\* the name returns found=true; a release function handed out before for
\* an entry that is gone still finds its mutex locked as it left it, and
\* its call unlocks that mutex, once.
C16_RemovedNameUnknown ==
    [][/\ LET p == Main(InitTask) IN
          (/\ pc[p] = "done" /\ call[p].op = "RemoveList" /\ res[p] = "true"
           /\ call[p].path \notin DOMAIN lists)
          => \A g \in BagToSet(guards') :
                g.path = call[p].path => CopiesIn(g, guards') <= CopiesIn(g, guards)
       /\ \A g \in BagToSet(guards) :
             Orphaned(g) =>
                /\ g.mode = UnlockFn =>
                      (CopiesIn(g, guards) = 1 /\ locks[g.lock] = [w |-> TRUE, readers |-> 0])
                /\ g.mode = RUnlockFn => locks[g.lock].readers >= CopiesIn(g, guards)
                /\ CopiesIn(g, guards') < CopiesIn(g, guards) =>
                      /\ CopiesIn(g, guards') = CopiesIn(g, guards) - 1
                      /\ \A l \in LockIds \ {g.lock} : locks'[l] = locks[l]
                      /\ IF g.mode = UnlockFn
                         THEN ~locks'[g.lock].w
                         ELSE /\ locks'[g.lock].readers = locks[g.lock].readers - 1
                              /\ locks'[g.lock].w = locks[g.lock].w]_vars

\* RemoveList has returned true for a name on which a guard is still held.
C16_Witness ==
    LET p == Main(InitTask) IN
    /\ pc[p] = "done" /\ call[p].op = "RemoveList" /\ res[p] = "true"
    /\ call[p].path \notin DOMAIN lists
    /\ \E g \in BagToSet(guards) : g.path = call[p].path

\* C17: whenever a name enters the mapping, also after it was removed, it
\* is mapped to a mutex that nothing referred to before (no entry, no
\* release function not yet called, no call under way) and that is unlocked:
\* a mutex that is still held never comes back into the mapping.
C17_FreshLockOnAdd ==
    [][\A path \in DOMAIN lists' :
          path \notin DOMAIN lists =>
             /\ lists'[path] \in LockIds \ UsedLocks
             /\ locks'[lists'[path]] = RWFree]_vars

\* A name is registered again while a guard on its former mutex is held.
C17_Witness ==
    \E g \in BagToSet(guards) : g.path \in DOMAIN lists /\ lists[g.path] # g.lock

\* The goroutines that the Init of InitTask started, one per spool.
Discoverers == {<<InitTask, i>> : i \in 1..Len(call[Main(InitTask)].spools)}
\* The composed names of the lists that goroutine q found in its spool.
Discovered(q) ==
    {listDir(call[q].spool, call[q].found[j]) : j \in 1..Len(call[q].found)}

\* C18: when an Init that runs alone returns, every spool of spoolList has
\* been queried by its goroutine and every goroutine has ended, the mapping
\* holds the composed names of the lists found in the spools, those of the
\* spools that could be read whatever happened to the others, and nothing
\* else, and the error returned is non-nil exactly if some spool could not
\* be read.
C18_InitPartialFailure ==
    LET p == Main(InitTask) IN
    (pc[p] = "done" /\ call[p].op = "Init") =>
        /\ \A q \in Discoverers :
              /\ pc[q] = "off" /\ call[q].op = "discover"
              /\ call[q].spool = call[p].spools[q[2]]
              /\ res[q] # Nil => call[q].found = <<>>
              /\ Discovered(q) \subseteq DOMAIN lists
        /\ DOMAIN lists = UNION {Discovered(q) : q \in Discoverers}
        /\ res[p] # Nil <=> \E q \in Discoverers : res[q] # Nil
        /\ res[p] # Nil => \E q \in Discoverers : res[q] = res[p]

\* An Init over two spools has returned: the second could not be read, the
\* lists of the first are in the mapping.
C18_Witness ==
    LET p == Main(InitTask) IN
    /\ pc[p] = "done" /\ call[p].op = "Init" /\ Len(call[p].spools) = 2
    /\ res[p] # Nil
    /\ res[<<InitTask, 1>>] = Nil /\ Len(call[<<InitTask, 1>>].found) = 2
    /\ res[<<InitTask, 2>>] # Nil

\* The goroutines blocked in m.RLock() or m.Lock() of ReadList/WriteList, and
\* those that have lm.mutex read-locked for the lookup alone.
BlockedOnList == {q \in Procs : pc[q] \in {"rl_mwait", "wl_mlock", "wl_mdrain"}}
InLookup == {q \in Procs : pc[q] \in {"rl_lookup", "wl_lookup", "rl_ret"}}

\* C19: ReadList and WriteList hold lm.mutex for the lookup of the list's
\* mutex only: the read locks of lm.mutex are those of the goroutines in the
\* lookup, none is held by a goroutine blocked in m.RLock() or m.Lock(), and
\* no AddList or RemoveList waits in lm.mutex.Lock() while a goroutine waits
\* for a list whose guard is held.
C19_TopLockOnlyForLookup ==
    /\ mutex.readers = Cardinality(InLookup)
    /\ \A p \in Procs :
          pc[p] \in {"add_body", "rem_body"} => \A q \in Procs : ~WaitsForList(q)

\* Where a goroutine is between the first and the last statement of AddList,
\* RemoveList, ReadList or WriteList.
InsideListManager ==
    {"add_lock", "add_body", "rem_lock", "rem_body",
     "rl_rwait", "rl_lookup", "rl_mwait", "rl_ret",
     "wl_rwait", "wl_lookup", "wl_mlock", "wl_mdrain"}
\* The step lm.lists = make(map[string]*sync.RWMutex) of Init.
InitReplaces ==
    pc[Main(InitTask)] = "idle" /\ pc'[Main(InitTask)] = "init_recv"

\* C20: the mapping is written only by a goroutine that has lm.mutex locked
\* exclusively, so that no reader holds lm.mutex when an entry is inserted
\* or deleted or when Init replaces the mapping, and Init never replaces it
\* while another goroutine is inside AddList, RemoveList, ReadList or
\* WriteList.
C20_MappingUnderLock ==
    [][/\ (lists' # lists \/ InitReplaces) => mutex.readers = 0
       /\ InitReplaces => \A q \in Procs : pc[q] \notin InsideListManager]_vars

\* The categories whose handler.List call of t's fan-out is under way.
FanRunning(t) == {k \in Categories : sub[t][k] = "run"}

\* C21: while a handler.List call of ListAllMembers or ListAllControllers is
\* under way, the operation has taken one read guard from ReadList and not
\* yet released it, the list's mutex is read-locked, and no handler call of
\* Sub or Unsub on the list is under way; the operation waits in its
\* receive loop, in which every category has either its call under way, its
\* error on ch, or its error received.
C21_FanOutUnderReadGuard ==
    \A t \in Clients :
        LET p == Main(t) IN
        /\ FanRunning(t) # {} =>
              /\ pc[p] = "fan_recv" /\ FanRunning(t) \subseteq FanOut(call[p].op)
              /\ stat[t].acq = 1 /\ stat[t].rel = 0
              /\ BagIn(Guard(call[p].path, m[p], RUnlockFn), guards)
              /\ lists[call[p].path] = m[p] /\ locks[m[p]].readers >= 1
              /\ \A u \in Clients :
                    (pc[Main(u)] = "handler" /\ call[Main(u)].op \in {"Sub", "Unsub"})
                        => call[Main(u)].path # call[p].path
        /\ pc[p] = "fan_recv" =>
              Cardinality(FanRunning(t)) + Len(ch[t]) + recvd[t]
                 = Cardinality(FanOut(call[p].op))

\* Sub waits for the list's mutex while one query of ListAllMembers on the
\* list is still under way and another has ended.
C21_Witness ==
    \E t, u \in Clients :
        /\ call[Main(t)].op = "ListAllMembers"
        /\ sub[t][Subscriber] = "run" /\ sub[t][Digest] \in {"data", "nil"}
        /\ pc[Main(u)] = "wl_mdrain" /\ call[Main(u)].op = "Sub"
        /\ call[Main(u)].path = call[Main(t)].path

\* C22: in the receive loop of ListAllMembers and ListAllControllers an err
\* that is non-nil is left as it is by every later reception, of nil or of
\* another error, and is what the operation returns; the operation returns
\* nil exactly if the query of every category returned without error.
C22_FirstErrorSticks ==
    [][\A t \in Clients :
          LET p == Main(t) IN
          pc[p] = "fan_recv" =>
             /\ (err[t] # Nil /\ pc'[p] = "fan_recv") => err'[t] = err[t]
             /\ (err[t] # Nil /\ pc'[p] = "done") => res'[p] = err[t]
             /\ pc'[p] = "done" =>
                   (res'[p] = Nil <=> \A k \in FanOut(call[p].op) : sub[t][k] = "data")]_vars

\* An error has been received and the nil of a query that succeeded is the
\* next to be received.
C22_Witness ==
    \E t \in Clients :
        /\ pc[Main(t)] = "fan_recv" /\ err[t] # Nil
        /\ ch[t] # <<>> /\ Head(ch[t]) = Nil

\* A write guard on the name is held, or a WriteList on it is under way.
WriteWanted(path) ==
    \/ \E g \in BagToSet(guards) : g.path = path /\ g.mode = UnlockFn
    \/ \E q \in Procs :
          /\ pc[q] \in {"wl_rwait", "wl_lookup", "wl_mlock", "wl_mdrain"}
          /\ call[q].path = path

\* C23: a ReadList on a registered name on which no write guard is held or
\* requested returns found=true with one more read lock on the list's mutex
\* as soon as it has lm.mutex, however many read guards on the name are
\* held; it never waits in m.RLock(), and while it waits for lm.mutex no
\* goroutine that lm.mutex waits for is blocked on that name.
C23_ReadersShare ==
    [][LET p == Main(InitTask) IN
       /\ (/\ (pc[p] = "idle" /\ ~mutex.w) \/ pc[p] = "rl_lookup"
           /\ pc'[p] # pc[p]
           /\ call'[p].op = "ReadList"
           /\ call'[p].path \in DOMAIN lists
           /\ ~WriteWanted(call'[p].path))
          => (/\ pc'[p] = "done" /\ res'[p] = "true"
              /\ guards' = guards (+)
                    SetToBag({Guard(call'[p].path, lists[call'[p].path], RUnlockFn)})
              /\ locks' = [locks EXCEPT ![lists[call'[p].path]].readers = @ + 1])
       /\ (/\ call[p].op = "ReadList"
           /\ call[p].path \in DOMAIN lists
           /\ ~WriteWanted(call[p].path))
          => (/\ pc[p] # "rl_mwait"
              /\ \A q \in BlockedOnList : call[q].path # call[p].path)]_vars

\* A ReadList has returned found=true and two read guards on the list's
\* mutex are outstanding.
C23_Witness ==
    LET p == Main(InitTask) IN
    /\ pc[p] = "done" /\ call[p].op = "ReadList" /\ res[p] = "true"
    /\ call[p].path \in DOMAIN lists
    /\ NHeld(lists[call[p].path], RUnlockFn) >= 2

\* What the goroutines of the Init of InitTask have found so far.
DiscoveredSoFar == UNION {Discovered(q) : q \in Discoverers}

\* C24: Init empties the mapping and leaves the mutexes of the guards that
\* are held as they are; while it runs alone the mapping holds nothing but
\* names that its goroutines found, and when it returns the mapping holds
\* exactly these, each with a mutex of its own that is unlocked and that no
\* outstanding guard refers to; an operation of the wrapper on a name that
\* is not in the mapping returns UnwatchedList and changes nothing.
C24_InitDiscardsMapping ==
    [][LET p == Main(InitTask) IN
       /\ InitReplaces => (lists' = <<>> /\ locks' = locks /\ guards' = guards)
       /\ pc'[p] = "init_recv" => (DOMAIN lists' \subseteq DiscoveredSoFar')
       /\ (pc[p] = "init_recv" /\ pc'[p] = "done") =>
             /\ DOMAIN lists' = DiscoveredSoFar'
             /\ \A path \in DOMAIN lists' :
                   /\ locks'[lists'[path]] = RWFree
                   /\ \A g \in BagToSet(guards') : g.lock # lists'[path]
                   /\ \A other \in DOMAIN lists' \ {path} : lists'[other] # lists'[path]
       /\ (/\ pc[p] = "idle" /\ pc'[p] # "idle"
           /\ call'[p].op \in GuardOps
           /\ call'[p].path \notin DOMAIN lists)
          => (/\ pc'[p] = "done" /\ res'[p] = UnwatchedList
              /\ UNCHANGED <<lists, locks, guards>>)]_vars

\* A guard is held on a name that an Init has dropped from the mapping,
\* which holds another name, and Sub on the dropped name has returned
\* UnwatchedList.
C24_Witness ==
    LET p == Main(InitTask) IN
    /\ pc[p] = "done" /\ call[p].op = "Sub" /\ res[p] = UnwatchedList
    /\ \E g \in BagToSet(guards) : g.path = call[p].path /\ g.path \notin DOMAIN lists
    /\ lists # <<>>

C26_NoWrapperOnError ==
    LET p == Main(InitTask) IN
    (pc[p] = "done" /\ call[p].op = "NewMLMMJWrapper") =>
        /\ call[p].wrapper <=> res[p] = Nil
        /\ call[p].wrapper <=> \A q \in Discoverers : res[q] = Nil
        /\ ~call[p].wrapper => \E q \in Discoverers : res[q] = res[p]
        /\ DOMAIN lists = DiscoveredSoFar

\* NewMLMMJWrapper has returned an error and no wrapper; the second spool
\* could not be read and the lists of the first are in the mapping.
C26_Witness ==
    LET p == Main(InitTask) IN
    /\ pc[p] = "done" /\ call[p].op = "NewMLMMJWrapper" /\ ~call[p].wrapper
    /\ res[<<InitTask, 2>>] # Nil
    /\ lists # <<>>

====
